---- MODULE Spec2Model ----
(***************************************************************************)
(* A model of tensorflow/core/kernels/relu_op_functor.h and                *)
(* tensorflow/core/kernels/relu_op_gpu.cu.cc: the element-wise activation  *)
(* functors, the half-precision ReluGrad kernels, the packed int8 Relu     *)
(* kernel, the exponent histogram kernel and the Quant8 launchers.         *)
(*                                                                         *)
(* Machine words.  TLC's integers are 32-bit signed, so an unsigned 32-bit *)
(* word is modelled as the set of its set bit positions (a subset of       *)
(* 0..31); a 16-bit half-precision pattern is modelled as a natural number *)
(* below 65536.                                                            *)
(***************************************************************************)
EXTENDS Integers, Sequences, FiniteSets, TLC

VARIABLES
  \* ---- Relu<Device, qint8> / Relu_int8x4_kernel
  i8cuda,      \* TRUE: the GOOGLE_CUDA build (__vmaxs4), FALSE: the bit trick
  i8count,     \* input.size(), in bytes
  i8in,        \* the input buffer, as 32-bit words
  i8out,       \* the output buffer, as 32-bit words
  i8pc,        \* "idle", "running", "done"
  i8todo,      \* indexes of the kernel loop not executed yet
  i8alias,     \* TRUE: output is the buffer of input
  \* ---- the generic functors of relu_op_functor.h, at T = Eigen::half
  fg,          \* gradients
  fx,          \* features: the input of the forward op
  fop,         \* the forward op that was run: "none", "Relu", "Relu6"
  fact,        \* activations: the output of the forward op
  fbpIn,       \* backprops computed with features = the forward input
  fbpOut,      \* backprops computed with features = the forward output
  fdone,       \* which of "bpIn", "bpOut" have been computed
  falpha,      \* alpha of LeakyRelu and LeakyReluGrad
  \* ---- ReluGrad<Device, Eigen::half> and its two kernels
  hkArch530,   \* TRUE: built with __CUDA_ARCH__ >= 530 (native half2 path)
  hkGrad,      \* gradient
  hkFeat,      \* feature
  hkBack,      \* backprop of each call: [paired |-> ..., vector |-> ...]
  hkWrites,    \* per call, how often each element index was stored to
  hkReads,     \* per call, how often each element index was loaded from
  hkWriter,    \* per call, the thread that stored to each element index last
  hkAlias,     \* the input that backprop aliases: "none", "gradient", "feature"
  hkPc,        \* "idle", or the kernel that is running: "paired", "vector"
  hkThreads,   \* gridDim.x * blockDim.x of the running kernel
  hkTodo,      \* threads of the running kernel that have not run yet
  hkCalls,     \* the kernels that have completed
  \* ---- doFrequencies_kernel
  hsT,         \* sizeof(T) in bits: 16 or 32
  hsCount,     \* count
  hsPat,       \* the input: element i is hsPat[(i % Len(hsPat)) + 1]
  hsGrid,      \* gridDim.x
  hsBlock,     \* blockDim.x
  hsPart,      \* part_counts of every thread: thread -> bucket -> uint16
  hsOut,       \* out: bucket -> int
  hsPc,        \* per warp: <<"count", 0>>, <<"reduce", i>>, <<"add", k>>, <<"done", 0>>
  \* ---- Quant8Fwd<GPUDevice, T> and the Quant8 forward kernels
  q8T,         \* sizeof(T) in bits: 16 or 32
  q8In,        \* input, as words
  q8W1,        \* W1
  q8W2,        \* W2
  q8Stoch,     \* stoch
  q8Seed,      \* the per-launch seed the caller supplies
  q8Out,       \* the output buffer of the call under way, as words
  q8Pc,        \* "idle", "running"
  q8Kernel,    \* the kernel enqueued: [variant, we, wm, cutoff]
  q8KSeed,     \* the value of the kernel's parameter seed
  q8Err,       \* an error was returned to the caller
  q8Todo,      \* threads of the running kernel that have not run yet
  q8Rng,       \* rng of each thread that has run (stoch only)
  q8Y,         \* y of each thread that has run
  q8Results,   \* the output buffers of the launcher's completed calls
  \* ---- Gelu<GPUDevice, T>, GeluGrad<GPUDevice, T>, Quant8Bwd<Device, T>
  ewOp,        \* the launcher that is called: "Gelu", "GeluGrad", "Quant8Bwd"
  ewT,         \* sizeof(T) in bits: 16 or 32
  ewIn,        \* input (Gelu, Quant8Bwd) or feature (GeluGrad)
  ewGrad,      \* gradient (GeluGrad)
  ewOut,       \* output or backprop
  ewAlias,     \* the input that the output aliases: "none", "in", "grad"
  ewWrites,    \* how often each element index was stored to
  ewReads,     \* how often each element index was loaded from
  ewPc,        \* "idle", "running", "done"
  ewBlocks,    \* gridDim.x of the running kernel
  ewTodo,      \* threads of the running kernel that have not run yet
  ewBlockTodo  \* blocks of the running kernel that have not run yet

int8Vars == <<i8cuda, i8count, i8in, i8out, i8pc, i8todo, i8alias>>
funVars == <<fg, fx, fop, fact, fbpIn, fbpOut, fdone, falpha>>

halfVars == <<hkArch530, hkGrad, hkFeat, hkBack, hkWrites, hkReads, hkWriter,
              hkAlias, hkPc, hkThreads, hkTodo, hkCalls>>

histVars == <<hsT, hsCount, hsPat, hsGrid, hsBlock, hsPart, hsOut, hsPc>>

q8Vars == <<q8T, q8In, q8W1, q8W2, q8Stoch, q8Seed, q8Out, q8Pc, q8Kernel,
            q8KSeed, q8Err, q8Todo, q8Rng, q8Y, q8Results>>

ewVars == <<ewOp, ewT, ewIn, ewGrad, ewOut, ewAlias, ewWrites, ewReads, ewPc,
            ewBlocks, ewTodo, ewBlockTodo>>

vars == <<int8Vars, funVars, halfVars, histVars, q8Vars, ewVars>>

\* what the actions of one component leave alone
notInt8 == <<funVars, halfVars, histVars, q8Vars, ewVars>>
notFun == <<int8Vars, halfVars, histVars, q8Vars, ewVars>>
notHalf == <<int8Vars, funVars, histVars, q8Vars, ewVars>>
notHist == <<int8Vars, funVars, halfVars, q8Vars, ewVars>>
notQ8 == <<int8Vars, funVars, halfVars, histVars, ewVars>>
notEw == <<int8Vars, funVars, halfVars, histVars, q8Vars>>

(***************************************************************************)
(* 32-bit words as sets of bit positions.                                  *)
(***************************************************************************)
Bits32 == 0..31

Pow2Table ==
  <<1, 2, 4, 8, 16, 32, 64, 128, 256, 512, 1024, 2048, 4096, 8192, 16384, 32768,
    65536, 131072, 262144, 524288, 1048576, 2097152, 4194304, 8388608, 16777216,
    33554432, 67108864, 134217728, 268435456, 536870912, 1073741824>>

\* 2^n for 0 <= n <= 30
Pow2(n) == Pow2Table[n + 1]

\* the word of a natural number below 2^31
U32(n) == {b \in 0..30 : (n \div Pow2(b)) % 2 = 1}

\* bits lo..lo+n-1 of a word, as a number (n <= 31)
RECURSIVE Field(_, _, _)
Field(w, lo, n) ==
  IF n = 0 THEN 0
  ELSE (IF lo + n - 1 \in w THEN Pow2(n - 1) ELSE 0) + Field(w, lo, n - 1)

U32Not(a) == Bits32 \ a
U32And(a, b) == a \cap b
U32Or(a, b) == a \cup b
U32Xor(a, b) == (a \ b) \cup (b \ a)
U32Shl(a, k) == {b + k : b \in a} \cap Bits32
U32Shr(a, k) == {b - k : b \in {c \in a : c >= k}}

\* addition modulo 2^32, on 16-bit limbs
U32Add(a, b) ==
  LET lo == Field(a, 0, 16) + Field(b, 0, 16)
      hi == Field(a, 16, 16) + Field(b, 16, 16) + (lo \div 65536)
  IN  U32(lo % 65536) \cup U32Shl(U32(hi % 65536), 16)

(***************************************************************************)
(* Relu_int8x4_kernel, relu_op_gpu.cu.cc:206-222.                          *)
(***************************************************************************)
MaxVect == 2

LaneVals == {0, 1, 127, 128, 255}

\* the four byte lanes of a word, lane 0 the least significant
Lane(w, k) == Field(w, 8 * k, 8)
WordOfLanes(l) == UNION {U32Shl(U32(l[k]), 8 * k) : k \in 0..3}

\* a byte read as a signed 8-bit integer
Signed8(b) == IF b >= 128 THEN b - 256 ELSE b

\* 0x80808080 and 0x7f7f7f7f
Mask80808080 == {7, 15, 23, 31}
Mask7f7f7f7f == Bits32 \ {7, 15, 23, 31}

\* __vmaxs4(a, b): the per-byte signed maximum (line 211)
Vmaxs4(a, b) ==
  WordOfLanes([k \in 0..3 |->
     IF Signed8(Lane(a, k)) >= Signed8(Lane(b, k)) THEN Lane(a, k) ELSE Lane(b, k)])

\* a fallback that forgets the last fan-out step, signs |= signs << 4
Int8FallbackNoShift4(w) ==
  LET s0 == U32And(U32Not(w), Mask80808080)
      s1 == U32Shr(s0, 7)
      s2 == U32Or(s1, U32Shl(s1, 1))
      s3 == U32Or(s2, U32Shl(s2, 2))
      s5 == U32And(s3, Mask7f7f7f7f)
  IN  U32And(w, s5)

\* lines 213-219: the bit-parallel fallback
Int8Fallback(w) ==
  LET s0 == U32And(U32Not(w), Mask80808080)
      s1 == U32Shr(s0, 7)
      s2 == U32Or(s1, U32Shl(s1, 1))
      s3 == U32Or(s2, U32Shl(s2, 2))
      s4 == U32Or(s3, U32Shl(s3, 4))
      s5 == U32And(s4, Mask7f7f7f7f)
  IN  U32And(w, s5)

Divup(a, b) == (a + b - 1) \div b

\* the input buffers: word i holds the chosen lanes rotated by i
Int8Input(l, n) ==
  [i \in 1..n |-> WordOfLanes([k \in 0..3 |-> l[(k + i - 1) % 4]])]

Int8Init ==
  /\ i8cuda \in BOOLEAN
  /\ \E n \in 0..MaxVect, l \in [0..3 -> LaneVals], o \in {"zeros", "ones", "input"} :
       /\ i8count = 4 * n
       /\ i8in = Int8Input(l, n)
       /\ i8alias = (o = "input")
       /\ i8out = IF o = "input" THEN i8in
                  ELSE [i \in 1..n |-> IF o = "zeros" THEN {} ELSE Bits32]
  /\ i8pc = "idle"
  /\ i8todo = {}

\* an iteration that takes its word from the index after its own
Int8IterationNext(index, out, aliased) ==
  [out EXCEPT ![index + 1] =
     LET j == ((index + 1) % Len(i8in)) + 1
         w == IF aliased THEN out[j] ELSE i8in[j]
     IN  IF i8cuda THEN Vmaxs4(w, {}) ELSE Int8Fallback(w)]

\* the body of the loop for one index, lines 210-220: the output buffer after
\* it; input[index] is read from the output buffer when the two are one
Int8Iteration(index, out, aliased) ==
  [out EXCEPT ![index + 1] =
     LET w == IF aliased THEN out[index + 1] ELSE i8in[index + 1]
     IN  IF i8cuda THEN Vmaxs4(w, {}) ELSE Int8Fallback(w)]

\* Relu<Device, qint8>::operator(), lines 231-244
Int8Launch ==
  /\ i8pc = "idle"
  /\ IF i8count = 0
       THEN /\ i8pc' = "done"
            /\ i8todo' = {}
       ELSE /\ i8pc' = "running"
            /\ i8todo' = 0..(Divup(i8count, 4) - 1)
  /\ UNCHANGED <<i8cuda, i8count, i8in, i8out, i8alias, notInt8>>

\* one iteration of CUDA_1D_KERNEL_LOOP(index, vect_count), lines 209-221
Relu_int8x4_kernel(index) ==
  /\ i8pc = "running"
  /\ index \in i8todo
  /\ i8out' = Int8Iteration(index, i8out, i8alias)
  /\ i8todo' = i8todo \ {index}
  /\ UNCHANGED <<i8cuda, i8count, i8in, i8pc, i8alias, notInt8>>

\* the kernel has run every iteration
Int8Complete ==
  /\ i8pc = "running"
  /\ i8todo = {}
  /\ i8pc' = "done"
  /\ UNCHANGED <<i8cuda, i8count, i8in, i8out, i8todo, i8alias, notInt8>>

\* the state of a component that a specification does not exercise
Int8Idle ==
  /\ i8cuda = FALSE /\ i8count = 0 /\ i8in = <<>> /\ i8out = <<>>
  /\ i8pc = "idle" /\ i8todo = {} /\ i8alias = FALSE

Int8Next ==
  \/ Int8Launch
  \/ \E index \in 0..(MaxVect - 1) : Relu_int8x4_kernel(index)
  \/ Int8Complete

(***************************************************************************)
(* Half precision (IEEE binary16) patterns, as numbers below 65536, and    *)
(* single precision patterns, as 32-bit words.                             *)
(***************************************************************************)
HSign(h) == h \div 32768
HExp(h) == (h \div 1024) % 32
HMant(h) == h % 1024
HIsNaN(h) == HExp(h) = 31 /\ HMant(h) # 0
HIsInf(h) == HExp(h) = 31 /\ HMant(h) = 0
HIsZero(h) == h % 32768 = 0

\* the position of a pattern that is not a NaN on the number line
HKey(h) == IF HSign(h) = 1 THEN -(h % 32768) ELSE h

\* a < b and a > b of IEEE comparison: false when either side is a NaN
HLt(a, b) == ~HIsNaN(a) /\ ~HIsNaN(b) /\ HKey(a) < HKey(b)
HGt(a, b) == ~HIsNaN(a) /\ ~HIsNaN(b) /\ HKey(a) > HKey(b)

\* static_cast<T>(0), static_cast<T>(6), and 1.0, the cast of a true mask
HZero == 0
HSix == 17920
HOne == 15360

\* the quiet NaN an invalid operation produces
HQuietNaN == 31 * 1024 + 512

\* mask * g for a mask that is 0.0 or 1.0: IEEE multiplication
HMulMask(mask, g) ==
  IF HIsNaN(g) THEN g
  ELSE IF mask = HOne THEN g
  ELSE IF HIsInf(g) THEN HQuietNaN
  ELSE HSign(g) * 32768

\* (b).cast<T>() of a boolean
HCast(b) == IF b THEN HOne ELSE HZero

\* the highest set bit of a positive number below 2^11
RECURSIVE TopBit(_)
TopBit(n) == IF n <= 1 THEN 0 ELSE 1 + TopBit(n \div 2)

\* static_cast<float>(half), __half22float2: the single precision word of a half
HalfToFloat(h) ==
  LET s == IF HSign(h) = 1 THEN {31} ELSE {}
      e == HExp(h)
      m == HMant(h)
  IN  IF e = 31 THEN s \cup U32Shl(U32(255), 23) \cup U32Shl(U32(m), 13)
      ELSE IF e = 0 /\ m = 0 THEN s
      ELSE IF e = 0
        THEN LET t == TopBit(m)
             IN  s \cup U32Shl(U32(t + 103), 23)
                   \cup U32Shl(U32((m * Pow2(10 - t)) % 1024), 13)
      ELSE s \cup U32Shl(U32(e + 112), 23) \cup U32Shl(U32(m), 13)

FIsNaN(w) == Field(w, 23, 8) = 255 /\ Field(w, 0, 23) # 0
\* f > 0.0f
FGtZero(w) == ~FIsNaN(w) /\ 31 \notin w /\ Field(w, 0, 31) # 0

\* Eigen::half(float), __float22half2_rn: round to nearest, ties to even
FloatToHalf(w) ==
  LET s == IF 31 \in w THEN 32768 ELSE 0
      e == Field(w, 23, 8)
      m == Field(w, 0, 23)
      he == e - 112
      sh == 14 - he
      full == 8388608 + m
      Round(q, r, half) ==
        IF r > half \/ (r = half /\ q % 2 = 1) THEN q + 1 ELSE q
  IN  IF e = 255
        THEN IF m = 0 THEN s + 31 * 1024 ELSE s + 31 * 1024 + 512 + ((m \div 8192) % 512)
      ELSE IF he >= 31 THEN s + 31 * 1024
      ELSE IF he >= 1
        THEN LET r == he * 1024 + Round(m \div 8192, m % 8192, 4096)
             IN  s + r
      ELSE IF e = 0 \/ sh > 24 THEN s
      ELSE s + Round(full \div Pow2(sh), full % Pow2(sh), Pow2(sh - 1))

\* 0.0f
FZero == {}

\* a * b on T = Eigen::half: the exact product, rounded to nearest, ties to
\* even (the product of two halves is exact in single precision, so the
\* widening implementation and the native one agree)
HMul(a, b) ==
  LET s == IF HSign(a) # HSign(b) THEN 32768 ELSE 0
      ma == IF HExp(a) = 0 THEN HMant(a) ELSE 1024 + HMant(a)
      mb == IF HExp(b) = 0 THEN HMant(b) ELSE 1024 + HMant(b)
      ea == IF HExp(a) = 0 THEN -24 ELSE HExp(a) - 25
      eb == IF HExp(b) = 0 THEN -24 ELSE HExp(b) - 25
      m == ma * mb
      e == ea + eb
      t == TopBit(m)
      normal == t + e >= -14
      drop == IF normal THEN t - 10 ELSE 0 - (e + 24)
      q == IF drop <= 0 THEN m * Pow2(0 - drop)
           ELSE IF drop > 30 THEN 0
           ELSE LET d == m \div Pow2(drop)
                    r == m % Pow2(drop)
                IN  IF r > Pow2(drop - 1) \/ (r = Pow2(drop - 1) /\ d % 2 = 1)
                      THEN d + 1 ELSE d
      pat == IF normal THEN (t + e + 14) * 1024 + q ELSE q
  IN  IF HIsNaN(a) THEN a
      ELSE IF HIsNaN(b) THEN b
      ELSE IF (HIsInf(a) /\ HIsZero(b)) \/ (HIsZero(a) /\ HIsInf(b)) THEN HQuietNaN
      ELSE IF HIsInf(a) \/ HIsInf(b) THEN s + 31744
      ELSE IF m = 0 THEN s
      ELSE IF pat >= 31744 THEN s + 31744
      ELSE s + pat

(***************************************************************************)
(* The generic functors, relu_op_functor.h.  Eigen evaluates them element  *)
(* by element.                                                             *)
(***************************************************************************)
\* cwiseMax<PropagateNaN>(c) and cwiseMin<PropagateNaN>(c)
CwiseMaxNaN(x, c) == IF HIsNaN(x) THEN x ELSE IF HIsNaN(c) THEN c
                     ELSE IF HLt(x, c) THEN c ELSE x
CwiseMinNaN(x, c) == IF HIsNaN(x) THEN x ELSE IF HIsNaN(c) THEN c
                     ELSE IF HLt(c, x) THEN c ELSE x

\* Relu, lines 35-36
ReluElem(x) == CwiseMaxNaN(x, HZero)

\* a Relu6 without the clamp at 6
Relu6ElemNoMin(x) == CwiseMaxNaN(x, HZero)

\* Relu6, lines 69-71
Relu6Elem(x) == CwiseMinNaN(CwiseMaxNaN(x, HZero), HSix)

\* ReluGrad, lines 55-56
ReluGradElem(g, x) == HMulMask(HCast(HGt(x, HZero)), g)

\* a Relu6Grad that lets the gradient through at features = 6
Relu6GradElemLe(g, x) ==
  HMulMask(HCast(HGt(x, HZero) /\ ~HGt(x, HSix) /\ ~HIsNaN(x)), g)

\* Relu6Grad, lines 90-92
Relu6GradElem(g, x) == HMulMask(HCast(HGt(x, HZero) /\ HLt(x, HSix)), g)

MaxFunLen == 3

\* the gradients and the features the buffers are filled with
GradVals == <<15360, 48128, 0, 31744, 32256, 1>>
FeatVals == <<0, 32768, 15360, 48128, 17920, 18176, 17919, 31744, 64512, 32256, 1>>

FunInit ==
  /\ \E n \in 0..MaxFunLen, a \in 1..Len(GradVals), b \in 1..Len(FeatVals) :
       /\ fg = [i \in 1..n |-> GradVals[((a + i) % Len(GradVals)) + 1]]
       /\ fx = [i \in 1..n |-> FeatVals[((b + 2 * i) % Len(FeatVals)) + 1]]
  /\ fop = "none"
  /\ fact = <<>>
  /\ fbpIn = <<>>
  /\ fbpOut = <<>>
  /\ fdone = {}
  /\ falpha = HZero

FunIdle ==
  /\ fg = <<>> /\ fx = <<>> /\ fop = "none" /\ fact = <<>>
  /\ fbpIn = <<>> /\ fbpOut = <<>> /\ fdone = {} /\ falpha = HZero

\* Relu<Device, T>::operator()
Relu ==
  /\ fop = "none"
  /\ fop' = "Relu"
  /\ fact' = [i \in 1..Len(fx) |-> ReluElem(fx[i])]
  /\ UNCHANGED <<fg, fx, fbpIn, fbpOut, fdone, falpha, notFun>>

\* Relu6<Device, T>::operator()
Relu6 ==
  /\ fop = "none"
  /\ fop' = "Relu6"
  /\ fact' = [i \in 1..Len(fx) |-> Relu6Elem(fx[i])]
  /\ UNCHANGED <<fg, fx, fbpIn, fbpOut, fdone, falpha, notFun>>

\* the features a backward op is called with: the forward input or output
Features(src) == IF src = "bpIn" THEN fx ELSE fact

\* the backprops buffer a backward op called with that argument writes
StoreBackprops(src, bp) ==
  /\ fbpIn' = (IF src = "bpIn" THEN bp ELSE fbpIn)
  /\ fbpOut' = (IF src = "bpOut" THEN bp ELSE fbpOut)
  /\ fdone' = fdone \cup {src}

\* ReluGrad<Device, T>::operator(), after Relu
ReluGrad(src) ==
  /\ fop = "Relu"
  /\ src \notin fdone
  /\ StoreBackprops(src, [i \in 1..Len(fg) |-> ReluGradElem(fg[i], Features(src)[i])])
  /\ UNCHANGED <<fg, fx, fop, fact, falpha, notFun>>

\* Relu6Grad<Device, T>::operator(), after Relu6
Relu6Grad(src) ==
  /\ fop = "Relu6"
  /\ src \notin fdone
  /\ StoreBackprops(src, [i \in 1..Len(fg) |-> Relu6GradElem(fg[i], Features(src)[i])])
  /\ UNCHANGED <<fg, fx, fop, fact, falpha, notFun>>

\* LeakyRelu, lines 116-117
LeakyReluElem(x, alpha) == IF HGt(x, HZero) THEN x ELSE HMul(x, alpha)

\* LeakyReluGrad, lines 133-134
LeakyReluGradElem(g, x, alpha) == IF HGt(x, HZero) THEN g ELSE HMul(g, alpha)

\* the values of alpha: 0, 0.25, 2, -0.5, -2, +Inf, NaN
AlphaVals == {0, 13312, 16384, 47104, 49152, 31744, 32256}

\* LeakyRelu<Device, T>::operator()
LeakyRelu(alpha) ==
  /\ fop = "none"
  /\ fop' = "LeakyRelu"
  /\ falpha' = alpha
  /\ fact' = [i \in 1..Len(fx) |-> LeakyReluElem(fx[i], alpha)]
  /\ UNCHANGED <<fg, fx, fbpIn, fbpOut, fdone, notFun>>

\* LeakyReluGrad<Device, T>::operator(), after LeakyRelu, with its alpha
LeakyReluGrad(src) ==
  /\ fop = "LeakyRelu"
  /\ src \notin fdone
  /\ StoreBackprops(src, [i \in 1..Len(fg) |->
                             LeakyReluGradElem(fg[i], Features(src)[i], falpha)])
  /\ UNCHANGED <<fg, fx, fop, fact, falpha, notFun>>

FunNext ==
  \/ Relu
  \/ Relu6
  \/ \E alpha \in AlphaVals : LeakyRelu(alpha)
  \/ \E src \in {"bpIn", "bpOut"} : ReluGrad(src)
  \/ \E src \in {"bpIn", "bpOut"} : Relu6Grad(src)
  \/ \E src \in {"bpIn", "bpOut"} : LeakyReluGrad(src)

(***************************************************************************)
(* ReluGradHalfKernel, ReluGradHalfKernelVector and their launcher,        *)
(* relu_op_gpu.cu.cc:47-204.                                               *)
(***************************************************************************)
VectorSizeElements == 8
kThreadInBlock == 512

MaxHalfLen == 10
MaxThreads == 3

HalfGradVals == <<15360, 48128, 31744, 32256>>
HalfFeatVals == <<15360, 48128, 0, 32256, 1>>

\* (feature > 0) ? gradient : 0 in single precision, narrowed to half:
\* lines 77-83, 94-101, 136-142, 154-161
SelectElem(g, x) ==
  FloatToHalf(IF FGtZero(HalfToFloat(x)) THEN HalfToFloat(g) ELSE FZero)

\* one lane of a half2: __hmul2(__hgt2(feature, 0), gradient) when half2
\* primitives are available (lines 70-74, 131-133), else the widening select
Half2Lane(arch530, g, x) ==
  IF arch530 THEN HMulMask(HCast(HGt(x, HZero)), g) ELSE SelectElem(g, x)

\* what a load from an index outside the buffers returns
HOutOfRange == 65535

\* gradient[i] and feature[i] as the running thread sees them: the buffer
\* that backprop aliases is read from backprop
Gradient(mem, i) ==
  IF i + 1 \notin DOMAIN hkGrad THEN HOutOfRange
  ELSE IF mem.alias = "gradient" THEN mem.back[i + 1] ELSE hkGrad[i + 1]
Feature(mem, i) ==
  IF i + 1 \notin DOMAIN hkFeat THEN HOutOfRange
  ELSE IF mem.alias = "feature" THEN mem.back[i + 1] ELSE hkFeat[i + 1]

\* the loads of gradient and feature at the indexes in S
Load(mem, S) ==
  CHOOSE r \in {[m EXCEPT !.reads = [j \in DOMAIN m.reads |->
                             IF j - 1 \in S THEN m.reads[j] + 1 ELSE m.reads[j]]] :
                 m \in {mem}} : TRUE

\* a store of value v to element i of a call's backprop buffer
Store(mem, i, v) ==
  CHOOSE r \in {[m EXCEPT !.back = IF i + 1 \in DOMAIN @
                                     THEN [@ EXCEPT ![i + 1] = v] ELSE @,
                           !.writes = [@ EXCEPT ![i + 1] = @ + 1],
                           !.writer = [@ EXCEPT ![i + 1] = m.thread]] : m \in {mem}} :
    TRUE

\* the grid-stride loop of ReluGradHalfKernel, lines 61-90: the memory and the
\* index on leaving the loop
RECURSIVE PairedLoop(_, _, _)
PairedLoop(index, total, mem) ==
  IF index < Len(hkGrad) \div 2
    THEN LET lo == 2 * index
             hi == 2 * index + 1
             m0 == Load(mem, {lo, hi})
             bLo == Half2Lane(hkArch530, Gradient(mem, lo), Feature(mem, lo))
             bHi == Half2Lane(hkArch530, Gradient(mem, hi), Feature(mem, hi))
         IN  CHOOSE r \in {PairedLoop(index + total, total, m) :
                            m \in {Store(Store(m0, lo, bLo), hi, bHi)}} : TRUE
    ELSE [index |-> index, mem |-> mem]

\* a thread of ReluGradHalfKernel in which the trailing element is handled
\* by every thread that has left the loop
PairedThreadAnyTail(t, total, mem) ==
  LET count == Len(hkGrad)
      out == PairedLoop(t, total, mem)
  IN  IF count % 2 = 1 /\ out.index >= count \div 2
        THEN Store(Load(out.mem, {count - 1}), count - 1,
                   SelectElem(Gradient(out.mem, count - 1), Feature(out.mem, count - 1)))
        ELSE out.mem

\* one thread of ReluGradHalfKernel, lines 57-103
PairedThread(t, total, mem) ==
  LET count == Len(hkGrad)
      out == PairedLoop(t, total, mem)
  IN  IF count % 2 = 1 /\ out.index = count \div 2
        THEN Store(Load(out.mem, {count - 1}), count - 1,
                   SelectElem(Gradient(out.mem, count - 1), Feature(out.mem, count - 1)))
        ELSE out.mem

\* the stores of lanes k..7 of the 8-element group of a thread, line 147;
\* the lanes are computed from the group as loaded, lines 115-145
RECURSIVE VectorBody(_, _, _, _)
VectorBody(index, k, loaded, mem) ==
  IF k = VectorSizeElements THEN mem
  ELSE LET i == VectorSizeElements * index + k
       IN  CHOOSE r \in
             {VectorBody(index, k + 1, loaded, m) :
                m \in {Store(mem, i, Half2Lane(hkArch530, Gradient(loaded, i),
                                               Feature(loaded, i)))}} : TRUE

\* a thread of ReluGradHalfKernelVector whose tail element is not offset by
\* the groups before it
VectorThreadNoOffset(t, mem) ==
  LET count == Len(hkGrad)
      half8_count == count \div VectorSizeElements
      remaining_count == count % VectorSizeElements
      group == {VectorSizeElements * t + k : k \in 0..(VectorSizeElements - 1)}
      m1 == IF t < half8_count THEN VectorBody(t, 0, mem, Load(mem, group)) ELSE mem
      i == t
  IN  IF t < remaining_count
        THEN Store(Load(m1, {i}), i, SelectElem(Gradient(m1, i), Feature(m1, i)))
        ELSE m1

\* one thread of ReluGradHalfKernelVector, lines 110-163
VectorThread(t, mem) ==
  LET count == Len(hkGrad)
      half8_count == count \div VectorSizeElements
      remaining_count == count % VectorSizeElements
      group == {VectorSizeElements * t + k : k \in 0..(VectorSizeElements - 1)}
      m1 == IF t < half8_count THEN VectorBody(t, 0, mem, Load(mem, group)) ELSE mem
      i == half8_count * VectorSizeElements + t
  IN  IF t < remaining_count
        THEN Store(Load(m1, {i}), i, SelectElem(Gradient(m1, i), Feature(m1, i)))
        ELSE m1

\* the memory of a call as thread t finds it
Mem(call, t) ==
  [back |-> hkBack[call], writes |-> hkWrites[call], reads |-> hkReads[call],
   writer |-> hkWriter[call], thread |-> t, alias |-> hkAlias]

\* thread t of a kernel of total threads, on the memory mem
KernelThread(call, t, total, mem) ==
  IF call = "paired" THEN PairedThread(t, total, [mem EXCEPT !.thread = t])
                     ELSE VectorThread(t, [mem EXCEPT !.thread = t])

ThreadRun(call, t) == KernelThread(call, t, hkThreads, Mem(call, t))

HalfCalls == {"paired", "vector"}

\* the buffers: gradient and feature, and which of them backprop aliases
HalfInputs ==
  ({"none"} \X (1..Len(HalfGradVals)) \X (1..Len(HalfFeatVals)))
    \cup ({"gradient", "feature"} \X {2} \X {1, 4})

HalfInit ==
  /\ hkArch530 \in BOOLEAN
  /\ \E n \in 0..MaxHalfLen, in \in HalfInputs :
       /\ hkAlias = in[1]
       /\ hkGrad = [i \in 1..n |-> HalfGradVals[((in[2] + i) % Len(HalfGradVals)) + 1]]
       /\ hkFeat = [i \in 1..n |-> HalfFeatVals[((in[3] + 2 * i) % Len(HalfFeatVals)) + 1]]
       /\ hkBack = [c \in HalfCalls |->
                      IF hkAlias = "gradient" THEN hkGrad
                      ELSE IF hkAlias = "feature" THEN hkFeat
                      ELSE [i \in 1..n |-> HQuietNaN + 1]]
       /\ hkWrites = [c \in HalfCalls |-> [i \in 1..(n + VectorSizeElements) |-> 0]]
       /\ hkReads = [c \in HalfCalls |-> [i \in 1..(n + VectorSizeElements) |-> 0]]
       /\ hkWriter = [c \in HalfCalls |-> [i \in 1..(n + VectorSizeElements) |-> -1]]
  /\ hkPc = "idle"
  /\ hkThreads = 0
  /\ hkTodo = {}
  /\ hkCalls = {}

HalfIdle ==
  /\ hkArch530 = FALSE /\ hkGrad = <<>> /\ hkFeat = <<>>
  /\ hkBack = <<>> /\ hkWrites = <<>> /\ hkReads = <<>> /\ hkWriter = <<>>
  /\ hkAlias = "none" /\ hkPc = "idle" /\ hkThreads = 0
  /\ hkTodo = {} /\ hkCalls = {}

\* the threads of a launch that load or store; the run of any other thread is
\* a step that changes nothing
Working(call, total) ==
  {t \in 0..(total - 1) :
     LET m == IF call = "paired" THEN PairedThread(t, total, Mem(call, t))
                                 ELSE VectorThread(t, Mem(call, t))
     IN  m.writes # hkWrites[call] \/ m.reads # hkReads[call]}

\* ReluGrad<Device, Eigen::half>::operator(), lines 174-203.
\* GetGpuLaunchConfigFixedBlockSize gives the blocks that the work items fill,
\* capped by what the device holds: one block for up to 512 pairs.
ReluGradHalfLaunch(aligned) ==
  LET count == Len(hkGrad)
      call == IF aligned THEN "vector" ELSE "paired"
      kBlock == IF aligned
                  THEN Divup(Divup(count, VectorSizeElements), kThreadInBlock)
                  ELSE Divup(Divup(count, 2), kThreadInBlock)
  IN  /\ hkPc = "idle"
      /\ call \notin hkCalls
      /\ IF count = 0
           THEN /\ hkCalls' = hkCalls \cup {call}
                /\ UNCHANGED <<hkPc, hkThreads, hkTodo>>
           ELSE /\ hkPc' = call
                /\ hkThreads' = kBlock * kThreadInBlock
                /\ hkTodo' = Working(call, kBlock * kThreadInBlock)
                /\ UNCHANGED hkCalls
      /\ UNCHANGED <<hkArch530, hkGrad, hkFeat, hkBack, hkWrites, hkReads, hkWriter,
                     hkAlias, notHalf>>

\* ReluGradHalfKernel<<<grid, block>>> with fewer threads than pairs
PairedLaunchDirect(total) ==
  /\ hkPc = "idle"
  /\ "paired" \notin hkCalls
  /\ Len(hkGrad) > 0
  /\ hkPc' = "paired"
  /\ hkThreads' = total
  /\ hkTodo' = Working("paired", total)
  /\ UNCHANGED <<hkArch530, hkGrad, hkFeat, hkBack, hkWrites, hkReads, hkWriter,
                 hkAlias, hkCalls, notHalf>>

\* thread t of the running kernel runs to its end
HalfKernelThread(t) ==
  /\ hkPc # "idle"
  /\ t \in hkTodo
  /\ \E m \in {ThreadRun(hkPc, t)} :
         /\ hkBack' = [hkBack EXCEPT ![hkPc] = m.back]
         /\ hkWrites' = [hkWrites EXCEPT ![hkPc] = m.writes]
         /\ hkReads' = [hkReads EXCEPT ![hkPc] = m.reads]
         /\ hkWriter' = [hkWriter EXCEPT ![hkPc] = m.writer]
  /\ hkTodo' = hkTodo \ {t}
  /\ UNCHANGED <<hkArch530, hkGrad, hkFeat, hkAlias, hkPc, hkThreads, hkCalls, notHalf>>

\* every thread of the running kernel has run
HalfKernelComplete ==
  /\ hkPc # "idle"
  /\ hkTodo = {}
  /\ hkCalls' = hkCalls \cup {hkPc}
  /\ hkPc' = "idle"
  /\ UNCHANGED <<hkArch530, hkGrad, hkFeat, hkBack, hkWrites, hkReads, hkWriter,
                 hkAlias, hkThreads, hkTodo, notHalf>>

HalfNext ==
  \/ \E aligned \in BOOLEAN : ReluGradHalfLaunch(aligned)
  \/ \E total \in 1..MaxThreads : PairedLaunchDirect(total)
  \/ \E t \in 0..MaxHalfLen : HalfKernelThread(t)
  \/ HalfKernelComplete

(***************************************************************************)
(* doFrequencies_kernel, relu_op_gpu.cu.cc:339-365.  The lanes of a warp   *)
(* run in lockstep; warps interleave.  The launches modelled have blocks   *)
(* of whole warps, so that no shuffle reads a lane that does not exist.    *)
(***************************************************************************)
\* the warp width the kernel is written for: i<64, threadIdx.x & 63, i+=64
WaveSize == 64

\* constexpr int W = (sizeof(T)==2) ? 5 : 8
HistW(T) == IF T = 16 THEN 5 ELSE 8
Buckets(T) == 0..(Pow2(HistW(T)) - 1)

\* in[i], as a word
HistIn(i) ==
  LET h == hsPat[(i % Len(hsPat)) + 1]
  IN  IF hsT = 16 THEN U32(h) ELSE HalfToFloat(h)

\* lines 354-357
Exponent(x) == IF hsT = 16 THEN Field(x, 10, 5) ELSE Field(x, 23, 8)

\* part_counts[exponent] += 1 on a uint16_t, line 358
CountOne(pc, i) ==
  [pc EXCEPT ![Exponent(HistIn(i))] = (@ + 1) % 65536]

\* iterations lo..hi-1 of the loop of line 352, in order, for the thread that
\* starts at index start
RECURSIVE CountRange(_, _, _, _, _)
CountRange(start, stride, lo, hi, pc) ==
  IF hi <= lo THEN pc
  ELSE IF hi = lo + 1 THEN CountOne(pc, start + lo * stride)
  ELSE LET mid == (lo + hi) \div 2
           first == CountRange(start, stride, lo, mid, pc)
       IN  IF DOMAIN first = {} THEN first
           ELSE CountRange(start, stride, mid, hi, first)

\* lines 346-359: the private counts of the thread with flat index tid
CountLoop(tid) ==
  LET stride == hsGrid * hsBlock
      trips == IF tid < hsCount THEN ((hsCount - 1 - tid) \div stride) + 1 ELSE 0
  IN  CountRange(tid, stride, 0, trips, [b \in Buckets(hsT) |-> 0])

\* lane ^ i for a power of two i
LaneXor(lane, i) == IF (lane \div i) % 2 = 1 THEN lane - i ELSE lane + i

\* one step of line 362 in every lane of a warp: part is lane -> bucket -> uint16
ShuffleStep(part, i) ==
  [lane \in 0..(WaveSize - 1) |->
     [b \in DOMAIN part[lane] |-> (part[lane][b] + part[LaneXor(lane, i)][b]) % 65536]]

Warps == 0..((hsGrid * hsBlock) \div WaveSize - 1)
Tid(w, lane) == w * WaveSize + lane

\* the launches: element type, grid, block, count, input pattern
MaxWarps == 2
HistCounts == {0, 1, 65, 130}
HistGeometry == {<<1, 64>>, <<1, 128>>, <<2, 64>>}
HistPatterns == {<<15360>>, <<48128, 1, 0, 31743>>}
HistLaunches ==
  ({16} \X HistGeometry \X HistCounts \X HistPatterns)
    \cup ({32} \X {<<1, 64>>} \X HistCounts \X HistPatterns)
    \cup {<<16, <<1, 64>>, 65536, <<15360>> >>}

HistInit ==
  /\ \E l \in HistLaunches :
       /\ hsT = l[1]
       /\ hsGrid = l[2][1]
       /\ hsBlock = l[2][2]
       /\ hsCount = l[3]
       /\ hsPat = l[4]
  /\ hsPart = [t \in 0..(hsGrid * hsBlock - 1) |-> [b \in Buckets(hsT) |-> 0]]
  /\ hsOut = [b \in Buckets(hsT) |-> 0]
  /\ hsPc = [w \in Warps |-> <<"count", 0>>]

HistIdle ==
  /\ hsT = 16 /\ hsCount = 0 /\ hsPat = <<>> /\ hsGrid = 0 /\ hsBlock = 0
  /\ hsPart = <<>> /\ hsOut = <<>> /\ hsPc = <<>>

\* lines 345-359 in every lane of warp w
WarpCount(w) ==
  /\ w \in Warps
  /\ hsPc[w][1] = "count"
  /\ hsPart' = [t \in DOMAIN hsPart |->
                  IF t \div WaveSize = w THEN CountLoop(t) ELSE hsPart[t]]
  /\ hsPc' = [hsPc EXCEPT ![w] = <<"reduce", 1>>]
  /\ UNCHANGED <<hsT, hsCount, hsPat, hsGrid, hsBlock, hsOut, notHist>>

\* one iteration of the loop of lines 360-362, for(i=1; i<64; i*=2), in warp w
WarpShuffle(w) ==
  /\ w \in Warps
  /\ hsPc[w][1] = "reduce"
  /\ LET i == hsPc[w][2]
         r == ShuffleStep([lane \in 0..(WaveSize - 1) |-> hsPart[Tid(w, lane)]], i)
     IN  /\ hsPart' = [t \in DOMAIN hsPart |->
                         IF t \div WaveSize = w THEN r[t % WaveSize] ELSE hsPart[t]]
         /\ hsPc' = [hsPc EXCEPT ![w] = IF 2 * i < WaveSize THEN <<"reduce", 2 * i>>
                                                            ELSE <<"add", 0>>]
  /\ UNCHANGED <<hsT, hsCount, hsPat, hsGrid, hsBlock, hsOut, notHist>>

\* one iteration of the loop of lines 363-364 in warp w: lane l adds its count
\* of bucket l + 64 k; the lanes of one iteration add to different buckets
WarpAtomicAdd(w) ==
  /\ w \in Warps
  /\ hsPc[w][1] = "add"
  /\ LET k == hsPc[w][2]
         n == Pow2(HistW(hsT))
     IN  /\ hsOut' = [b \in DOMAIN hsOut |->
                        IF b \div WaveSize = k
                          THEN hsOut[b] + hsPart[Tid(w, b % WaveSize)][b]
                          ELSE hsOut[b]]
         /\ hsPc' = [hsPc EXCEPT ![w] = IF (k + 1) * WaveSize < n THEN <<"add", k + 1>>
                                                ELSE <<"done", 0>>]
  /\ UNCHANGED <<hsT, hsCount, hsPat, hsGrid, hsBlock, hsPart, notHist>>

HistNext ==
  \/ \E w \in 0..(MaxWarps - 1) : WarpCount(w)
  \/ \E w \in 0..(MaxWarps - 1) : WarpShuffle(w)
  \/ \E w \in 0..(MaxWarps - 1) : WarpAtomicAdd(w)

HistDone == hsPc # <<>> /\ \A w \in Warps : hsPc[w][1] = "done"

\* the sum of out[lo..hi-1]
RECURSIVE SumOut(_, _)
SumOut(lo, hi) ==
  IF hi <= lo THEN 0
  ELSE IF hi = lo + 1 THEN hsOut[lo]
  ELSE SumOut(lo, (lo + hi) \div 2) + SumOut((lo + hi) \div 2, hi)

(***************************************************************************)
(* The narrow-float casts of hip_float8.h, which the Quant8 kernels call.  *)
(* The header is not among the sources; the casts follow section 4.4 of    *)
(* the specification: round to nearest even or stochastic rounding, narrow *)
(* denormals, saturation to the largest finite value, a NaN encoding,      *)
(* signed zero.  A narrow float is 1 + we + wm bits, the sign on top.      *)
(***************************************************************************)
\* the fields of the source format
SrcMant(T) == IF T = 32 THEN 23 ELSE 10
SrcExp(T) == IF T = 32 THEN 8 ELSE 5
SrcBias(T) == IF T = 32 THEN 127 ELSE 15

\* hip_f8_impl::cast_to_f8x<wm, we, FT, false, true[, true]>(fin[i][, rng])
CastToF8(we, wm, T, x, stoch, rng) ==
  LET mfmt == SrcMant(T)
      mant == Field(x, 0, mfmt)
      exponent == Field(x, mfmt, SrcExp(T))
      sign == IF (mfmt + SrcExp(T)) \in x THEN Pow2(we + wm) ELSE 0
      maxFinite == (Pow2(we) - 1) * Pow2(wm) - 1
      f8Denorm == 2 - Pow2(we - 1)
      act == IF exponent = 0 THEN 1 - SrcBias(T) ELSE exponent - SrcBias(T)
      full == IF exponent = 0 THEN mant ELSE mant + Pow2(mfmt)
      base == IF act > f8Denorm THEN act ELSE f8Denorm
      drop == mfmt - wm + (base - act)
      q == IF drop > 30 THEN 0
           ELSE IF drop <= 0 THEN full * Pow2(0 - drop)
           ELSE IF stoch THEN (full + Field(rng, 0, drop)) \div Pow2(drop)
           ELSE LET t == full \div Pow2(drop)
                    r == full % Pow2(drop)
                IN  IF r > Pow2(drop - 1) \/ (r = Pow2(drop - 1) /\ t % 2 = 1)
                      THEN t + 1 ELSE t
      code == (base - f8Denorm) * Pow2(wm) + q
  IN  IF exponent = Pow2(SrcExp(T)) - 1 /\ mant # 0 THEN sign + maxFinite + 2
      ELSE IF exponent = Pow2(SrcExp(T)) - 1 THEN sign + maxFinite
      ELSE IF code > maxFinite THEN sign + maxFinite
      ELSE sign + code

\* hip_f8_impl::cast_from_f8<wm, we, FT, false>(y): the word of the source
\* format that holds the value of the narrow float y
CastFromF8(we, wm, T, y) ==
  LET mfmt == SrcMant(T)
      top == mfmt + SrcExp(T)
      s == IF y \div Pow2(we + wm) = 1 THEN {top} ELSE {}
      e == (y \div Pow2(wm)) % Pow2(we)
      m == y % Pow2(wm)
      f8Denorm == 2 - Pow2(we - 1)
      big == IF e = 0 THEN m ELSE Pow2(wm) + m
      t == TopBit(big)
      unb == (IF e = 0 THEN f8Denorm ELSE e - Pow2(we - 1) + 1) - wm + t
      expField == unb + SrcBias(T)
  IN  IF e = Pow2(we) - 1
        THEN s \cup U32Shl(U32(Pow2(SrcExp(T)) - 1), mfmt)
               \cup (IF m = 0 THEN {} ELSE {mfmt - 1})
      ELSE IF big = 0 THEN s
      ELSE IF expField >= 1
        THEN s \cup U32Shl(U32(expField), mfmt)
               \cup U32Shl(U32(big - Pow2(t)), mfmt - t)
      ELSE s \cup U32Shl(U32(big), mfmt - t + expField - 1)

(***************************************************************************)
(* Quant8FwdKernel, Quant8FwdKernel_52, Quant8FwdKernel_43 and the         *)
(* launcher Quant8Fwd<GPUDevice, T>, relu_op_gpu.cu.cc:367-516.            *)
(***************************************************************************)
\* a word times a byte, modulo 2^32, on 16-bit limbs
U32MulByte(a, c) ==
  LET lo == Field(a, 0, 16) * c
      hi == Field(a, 16, 16) * c + (lo \div 65536)
  IN  U32(lo % 65536) \cup U32Shl(U32(hi % 65536), 16)

\* multiplication modulo 2^32: the sum of a times each byte of b, shifted
U32Mul(a, b) ==
  U32Add(U32Add(U32MulByte(a, Field(b, 0, 8)),
                U32Shl(U32MulByte(a, Field(b, 8, 8)), 8)),
         U32Add(U32Shl(U32MulByte(a, Field(b, 16, 8)), 16),
                U32Shl(U32MulByte(a, Field(b, 24, 8)), 24)))

\* 0x7000149, 0x13371337, 229791
RngMultiplier == 117440841
RngXor == 322376503
RngIndexStep == 229791

\* drop_bits before the multiplication: lines 384-387, 411-414, 439-442
DropBits(T, x) ==
  LET d0 == U32And(x, U32(65535))
      d1 == IF T = 32 THEN U32Xor(d0, U32Shr(x, 16)) ELSE d0
  IN  U32Or(U32Shl(U32And(d1, U32(31)), 11), U32Shr(d1, 5))

\* rng of thread i: lines 384-389 (generic), 411-416 (_52), 439-445 (_43,
\* which has drop_bits += i)
Rng(variant, T, x, i, seed) ==
  LET d == DropBits(T, x)
      d2 == IF variant = "_43" THEN U32Add(d, U32(i)) ELSE d
  IN  U32Xor(U32Xor(U32Xor(U32Mul(d2, U32(RngMultiplier)), U32(RngXor)),
                    U32(i * RngIndexStep)),
             seed)

\* a launcher that does not alias W1 = 8 to 5 for a 16-bit element type
DispatchNoAlias(T, W1, W2) ==
  IF W1 \in {4, 5, 8} /\ W2 \in {1, 2, 3} THEN <<W1, W2>> ELSE <<5, 3>>

\* lines 480-512: the specialization <T, we, wm> that op ends up as
Dispatch(T, W1, W2) ==
  IF W1 = 4
    THEN IF W2 = 1 THEN <<4, 1>>
         ELSE IF W2 = 2 THEN <<4, 2>>
         ELSE IF W2 = 3 THEN <<4, 3>>
         ELSE <<5, 3>>
  ELSE IF W1 = 5 \/ (W1 = 8 /\ T = 16)
    THEN IF W2 = 1 THEN <<5, 1>>
         ELSE IF W2 = 2 THEN <<5, 2>>
         ELSE IF W2 = 3 THEN <<5, 3>>
         ELSE <<5, 3>>
  ELSE IF W1 = 8
    THEN IF W2 = 1 THEN <<8, 1>>
         ELSE IF W2 = 2 THEN <<8, 2>>
         ELSE IF W2 = 3 THEN <<8, 3>>
         ELSE <<5, 3>>
  ELSE <<5, 3>>

\* lines 477-479: exp_low_cutoff
ExpLowCutoff(T, W1) == (Pow2(SrcExp(T)) \div 2) - Pow2(W1 - 1) + 1

MaxQ8Len == 2

Q8Vals == <<15360, 13653, 49408, 0>>
Q8Widths1 == {3, 4, 5, 8}
Q8Widths2 == {1, 2, 3, 4}
\* the bit patterns a word that was never set can hold
Q8Seeds == {U32(4660), U32(322376503) \cup {31}}
Q8Garbage == {{}, U32(57005)}

NoKernel == [variant |-> "none", we |-> 0, wm |-> 0, cutoff |-> 0]

Q8Word(T, h) == IF T = 16 THEN U32(h) ELSE HalfToFloat(h)

Q8Init ==
  /\ q8T \in {16, 32}
  /\ \E n \in 0..MaxQ8Len, a \in 1..Len(Q8Vals) :
       q8In = [i \in 1..n |-> Q8Word(q8T, Q8Vals[((a + i) % Len(Q8Vals)) + 1])]
  /\ q8W1 \in Q8Widths1
  /\ q8W2 \in Q8Widths2
  /\ q8Stoch \in BOOLEAN
  /\ q8Seed = U32(4660)
  /\ \E o \in Q8Garbage : q8Out = [i \in 1..Len(q8In) |-> o]
  /\ q8Pc = "idle"
  /\ q8Kernel = NoKernel
  /\ q8KSeed = {}
  /\ q8Err = FALSE
  /\ q8Todo = {}
  /\ q8Rng = <<>>
  /\ q8Y = <<>>
  /\ q8Results = <<>>

Q8Idle ==
  /\ q8T = 16 /\ q8In = <<>> /\ q8W1 = 0 /\ q8W2 = 0 /\ q8Stoch = FALSE
  /\ q8Seed = {} /\ q8Out = <<>> /\ q8Pc = "idle" /\ q8Kernel = NoKernel
  /\ q8KSeed = {} /\ q8Err = FALSE /\ q8Todo = {} /\ q8Rng = <<>> /\ q8Y = <<>>
  /\ q8Results = <<>>

\* Quant8Fwd<GPUDevice, T>::operator(), lines 460-515.  The call has no seed
\* parameter and GpuLaunchKernel is given five arguments for the six
\* parameters of the kernel: the kernel's seed is whatever the launch leaves
\* there.  Bad widths are printed, nothing is returned, and op is launched.
Quant8Fwd(garbage) ==
  /\ q8Pc = "idle"
  /\ Len(q8Results) < 2
  /\ q8Kernel.variant \in {"none", "generic"}
  /\ IF Len(q8In) = 0
       THEN /\ q8Results' = Append(q8Results, q8Out)
            /\ UNCHANGED <<q8Pc, q8Kernel, q8KSeed, q8Todo, q8Rng, q8Y>>
       ELSE /\ q8Pc' = "running"
            /\ q8Kernel' = [variant |-> "generic",
                            we |-> Dispatch(q8T, q8W1, q8W2)[1],
                            wm |-> Dispatch(q8T, q8W1, q8W2)[2],
                            cutoff |-> ExpLowCutoff(q8T, q8W1)]
            /\ q8KSeed' = garbage
            /\ q8Todo' = 0..(Len(q8In) - 1)
            /\ q8Rng' = [i \in 1..Len(q8In) |-> {}]
            /\ q8Y' = [i \in 1..Len(q8In) |-> 0]
            /\ UNCHANGED q8Results
  /\ UNCHANGED <<q8T, q8In, q8W1, q8W2, q8Stoch, q8Seed, q8Out, q8Err, notQ8>>

\* Quant8FwdKernel_52<T> or Quant8FwdKernel_43<T> launched with all six
\* arguments; nothing in the file launches them
Quant8FwdKernelDirect(variant) ==
  /\ q8Pc = "idle"
  /\ q8Kernel.variant = "none"
  /\ Len(q8In) > 0
  /\ q8Pc' = "running"
  /\ q8Kernel' = [variant |-> variant,
                  we |-> IF variant = "_52" THEN 5 ELSE 4,
                  wm |-> IF variant = "_52" THEN 2 ELSE 3,
                  cutoff |-> ExpLowCutoff(q8T, IF variant = "_52" THEN 5 ELSE 4)]
  /\ q8KSeed' = q8Seed
  /\ q8Todo' = 0..(Len(q8In) - 1)
  /\ q8Rng' = [i \in 1..Len(q8In) |-> {}]
  /\ q8Y' = [i \in 1..Len(q8In) |-> 0]
  /\ UNCHANGED <<q8T, q8In, q8W1, q8W2, q8Stoch, q8Seed, q8Out, q8Err, q8Results, notQ8>>

\* thread i of the running kernel: lines 370-391, 397-419, 425-448.  The
\* generic kernel computes y and returns; _52 and _43 store its decoding.
Quant8FwdKernel(i) ==
  /\ q8Pc = "running"
  /\ i \in q8Todo
  /\ LET x == q8In[i + 1]
         rng == IF q8Stoch THEN Rng(q8Kernel.variant, q8T, x, i, q8KSeed) ELSE {}
         y == CastToF8(q8Kernel.we, q8Kernel.wm, q8T, x, q8Stoch, rng)
     IN  /\ q8Rng' = [q8Rng EXCEPT ![i + 1] = rng]
         /\ q8Y' = [q8Y EXCEPT ![i + 1] = y]
         /\ q8Out' = IF q8Kernel.variant = "generic" THEN q8Out
                     ELSE [q8Out EXCEPT ![i + 1] =
                             CastFromF8(q8Kernel.we, q8Kernel.wm, q8T, y)]
  /\ q8Todo' = q8Todo \ {i}
  /\ UNCHANGED <<q8T, q8In, q8W1, q8W2, q8Stoch, q8Seed, q8Pc, q8Kernel, q8KSeed,
                 q8Err, q8Results, notQ8>>

\* the kernel has completed; the caller may call again, with the same
\* arguments and an output buffer of any contents
Quant8Complete(garbage) ==
  /\ q8Pc = "running"
  /\ q8Todo = {}
  /\ q8Pc' = "idle"
  /\ q8Results' = IF q8Kernel.variant = "generic" THEN Append(q8Results, q8Out)
                  ELSE q8Results
  /\ q8Out' = IF q8Kernel.variant = "generic" /\ Len(q8Results) = 0
                THEN [i \in 1..Len(q8In) |-> garbage] ELSE q8Out
  /\ UNCHANGED <<q8T, q8In, q8W1, q8W2, q8Stoch, q8Seed, q8Kernel, q8KSeed, q8Err,
                 q8Todo, q8Rng, q8Y, notQ8>>

Q8Next ==
  \/ \E garbage \in Q8Seeds : Quant8Fwd(garbage)
  \/ \E variant \in {"_52", "_43"} : Quant8FwdKernelDirect(variant)
  \/ \E i \in 0..(MaxQ8Len - 1) : Quant8FwdKernel(i)
  \/ \E garbage \in Q8Garbage : Quant8Complete(garbage)

\* the supported (W1, W2) pairs
Q8Supported == q8W1 \in {4, 5, 8} /\ q8W2 \in {1, 2, 3}

\* the launcher has been called on a tensor that is not empty
Q8Called == q8Kernel.variant = "generic"

(***************************************************************************)
(* The kernels with one thread per element: GeluKernel, GeluGradKernel and *)
(* Quant8BwdKernel, relu_op_gpu.cu.cc:249-308 and 451-456, and their       *)
(* launchers, lines 310-336 and 518-544.                                   *)
(***************************************************************************)
\* kThreadInBlock of these launchers
kThreadInBlock256 == 256

MaxEwLen == 3

\* the counts above one block
EwBigCounts == {kThreadInBlock256, kThreadInBlock256 + 1}

EwVals == <<15360, 48128, 0, 31744>>

\* out[i] of GeluKernel and backprop[i] of GeluGradKernel, lines 256-257 and
\* 265-273: tanh and cosh are not computed; the result is a function of the
\* bits the thread has read
GeluPattern(x) == (x * 31 + 7) % 65521
GeluGradPattern(g, x) == (g * 17 + x * 31 + 11) % 65521

\* in[i] / feature[i] and gradient[i] as the running thread sees them
EwInput(mem, i) == IF mem.alias = "in" THEN mem.out[i + 1] ELSE ewIn[i + 1]
EwGradient(mem, i) == IF mem.alias = "grad" THEN mem.out[i + 1] ELSE ewGrad[i + 1]

\* the load from, and the store to, element i
EwLoad(mem, i) == [mem EXCEPT !.reads = [@ EXCEPT ![i + 1] = @ + 1]]
EwStore(mem, i, v) ==
  [mem EXCEPT !.out = IF i + 1 \in DOMAIN @ THEN [@ EXCEPT ![i + 1] = v] ELSE @,
              !.writes = [@ EXCEPT ![i + 1] = @ + 1]]

\* thread i of the kernel: lines 254-257, 262-273, 280-287, 296-307, 453-455
EwThreadRun(i, mem) ==
  IF i >= Len(ewIn) THEN mem
  ELSE IF ewOp = "Gelu"
    THEN EwStore(EwLoad(mem, i), i, GeluPattern(EwInput(mem, i)))
  ELSE IF ewOp = "GeluGrad"
    THEN EwStore(EwLoad(mem, i), i,
                 GeluGradPattern(EwGradient(mem, i), EwInput(mem, i)))
  ELSE EwStore(EwLoad(mem, i), i, EwInput(mem, i))

\* threads lo..hi-1 run one after the other
RECURSIVE EwThreadsRun(_, _, _)
EwThreadsRun(lo, hi, mem) ==
  IF hi <= lo THEN mem
  ELSE IF hi = lo + 1 THEN EwThreadRun(lo, mem)
  ELSE CHOOSE r \in {EwThreadsRun((lo + hi) \div 2, hi, m) :
                       m \in {EwThreadsRun(lo, (lo + hi) \div 2, mem)}} : TRUE

EwMem == [out |-> ewOut, writes |-> ewWrites, reads |-> ewReads, alias |-> ewAlias]

\* a grid of count / kThreadInBlock blocks: the last, partial block is missing
EwGridFloor(count) == count \div kThreadInBlock256

\* the grid of lines 318, 332, 528, 541
EwGrid(count) == (count + kThreadInBlock256 - 1) \div kThreadInBlock256

\* a value of the element type: the half pattern, or the word of the float
EwWord(T, h) == IF T = 16 THEN h ELSE HalfToFloat(h)

EwInit ==
  /\ ewOp \in {"Gelu", "GeluGrad", "Quant8Bwd"}
  /\ ewT \in (IF ewOp = "Quant8Bwd" THEN {16, 32} ELSE {16})
  /\ ewAlias \in (IF ewOp = "GeluGrad" THEN {"none", "in", "grad"} ELSE {"none", "in"})
  /\ \E n \in (0..MaxEwLen) \cup EwBigCounts, a \in 1..2 :
       /\ ewIn = [i \in 1..n |-> EwWord(ewT, EwVals[((a + i) % Len(EwVals)) + 1])]
       /\ ewGrad = IF ewOp = "GeluGrad"
                     THEN [i \in 1..n |-> EwVals[((a + 3 * i) % Len(EwVals)) + 1]]
                     ELSE <<>>
       /\ ewOut = IF ewAlias = "in" THEN ewIn
                  ELSE IF ewAlias = "grad" THEN ewGrad
                  ELSE [i \in 1..n |-> EwWord(ewT, HQuietNaN + 1)]
       /\ ewWrites = [i \in 1..((EwGrid(n) + 1) * kThreadInBlock256) |-> 0]
       /\ ewReads = [i \in 1..((EwGrid(n) + 1) * kThreadInBlock256) |-> 0]
  /\ ewPc = "idle"
  /\ ewBlocks = 0
  /\ ewTodo = {}
  /\ ewBlockTodo = {}

EwIdle ==
  /\ ewOp = "none" /\ ewT = 16 /\ ewIn = <<>> /\ ewGrad = <<>> /\ ewOut = <<>>
  /\ ewAlias = "none" /\ ewWrites = <<>> /\ ewReads = <<>> /\ ewPc = "idle"
  /\ ewBlocks = 0 /\ ewTodo = {} /\ ewBlockTodo = {}

\* a launcher that enqueues its kernel whatever the count
EwLaunchAlways(op) ==
  /\ ewPc = "idle"
  /\ ewOp = op
  /\ ewPc' = "running"
  /\ ewBlocks' = EwGrid(Len(ewIn))
  /\ ewTodo' = {}
  /\ ewBlockTodo' = 0..(EwGrid(Len(ewIn)) - 1)
  /\ UNCHANGED <<ewOp, ewT, ewIn, ewGrad, ewOut, ewAlias, ewWrites, ewReads, notEw>>

\* the launchers: count == 0 returns, else the kernel is enqueued on
\* EwGrid(count) blocks of 256 threads.  For a count of at most MaxEwLen the
\* threads that load or store run one by one, in any order (the run of any
\* other thread is a step that changes nothing); for a larger count the
\* blocks run one by one, in any order.
EwLaunch(op) ==
  LET count == Len(ewIn)
      blocks == EwGrid(count)
  IN  /\ ewPc = "idle"
      /\ ewOp = op
      /\ IF count = 0
           THEN /\ ewPc' = "done"
                /\ UNCHANGED <<ewBlocks, ewTodo, ewBlockTodo>>
           ELSE /\ ewPc' = "running"
                /\ ewBlocks' = blocks
                /\ ewTodo' = IF count <= MaxEwLen
                               THEN {t \in 0..(blocks * kThreadInBlock256 - 1) :
                                       EwThreadRun(t, EwMem) # EwMem}
                               ELSE {}
                /\ ewBlockTodo' = IF count <= MaxEwLen THEN {} ELSE 0..(blocks - 1)
      /\ UNCHANGED <<ewOp, ewT, ewIn, ewGrad, ewOut, ewAlias, ewWrites, ewReads, notEw>>

\* Gelu<GPUDevice, T>::operator(), lines 310-321
Gelu == EwLaunch("Gelu")

\* GeluGrad<GPUDevice, T>::operator(), lines 323-336
GeluGrad == EwLaunch("GeluGrad")

\* Quant8Bwd<Device, Eigen::half> and Quant8Bwd<Device, float>, lines 518-544
Quant8Bwd == EwLaunch("Quant8Bwd")

\* the state after a step that leaves the memory as mem
EwStep(mem) ==
  /\ ewOut' = mem.out
  /\ ewWrites' = mem.writes
  /\ ewReads' = mem.reads
  /\ UNCHANGED <<ewOp, ewT, ewIn, ewGrad, ewAlias, ewPc, ewBlocks, notEw>>

\* thread i of the running kernel runs to its end
ElementwiseThread(i) ==
  /\ ewPc = "running"
  /\ i \in ewTodo
  /\ \E m \in {EwThreadRun(i, EwMem)} : EwStep(m)
  /\ ewTodo' = ewTodo \ {i}
  /\ UNCHANGED ewBlockTodo

\* the threads of block b of the running kernel run to their end
ElementwiseBlock(b) ==
  /\ ewPc = "running"
  /\ b \in ewBlockTodo
  /\ \E m \in {EwThreadsRun(b * kThreadInBlock256, (b + 1) * kThreadInBlock256, EwMem)} :
       EwStep(m)
  /\ ewBlockTodo' = ewBlockTodo \ {b}
  /\ UNCHANGED ewTodo

\* every thread of the running kernel has run
ElementwiseComplete ==
  /\ ewPc = "running"
  /\ ewTodo = {}
  /\ ewBlockTodo = {}
  /\ ewPc' = "done"
  /\ UNCHANGED <<ewOp, ewT, ewIn, ewGrad, ewOut, ewAlias, ewWrites, ewReads,
                 ewBlocks, ewTodo, ewBlockTodo, notEw>>

MaxEwBlocks == 2

EwNext ==
  \/ Gelu
  \/ GeluGrad
  \/ Quant8Bwd
  \/ \E i \in 0..(MaxEwLen - 1) : ElementwiseThread(i)
  \/ \E b \in 0..(MaxEwBlocks - 1) : ElementwiseBlock(b)
  \/ ElementwiseComplete

(***************************************************************************)
(* Specifications: one per component, the other components idle.           *)
(***************************************************************************)
(***************************************************************************)
(* The elementwise kernels with the output buffer given as one of the      *)
(* inputs, against the same kernels on an output buffer of their own.      *)
(***************************************************************************)
\* iterations index..n-1 of Relu_int8x4_kernel, one after the other, on an
\* output buffer of its own
RECURSIVE Int8Sequential(_, _)
Int8Sequential(index, out) ==
  IF index >= Len(i8in) THEN out
  ELSE Int8Sequential(index + 1, Int8Iteration(index, out, FALSE))

\* threads lo..hi-1 of a half ReluGrad kernel of total threads, one after the other
RECURSIVE HalfThreadsRun(_, _, _, _, _)
HalfThreadsRun(call, lo, hi, total, mem) ==
  IF hi <= lo THEN mem
  ELSE IF hi = lo + 1 THEN KernelThread(call, lo, total, mem)
  ELSE CHOOSE r \in {HalfThreadsRun(call, (lo + hi) \div 2, hi, total, m) :
                       m \in {HalfThreadsRun(call, lo, (lo + hi) \div 2, total, mem)}} : TRUE

\* what a half ReluGrad kernel of total threads leaves in a backprop buffer of
\* its own
HalfDistinct(call, total) ==
  HalfThreadsRun(call, 0, total, total,
    [back |-> [i \in 1..Len(hkGrad) |-> HQuietNaN + 1],
     writes |-> [i \in 1..(Len(hkGrad) + VectorSizeElements) |-> 0],
     reads |-> [i \in 1..(Len(hkGrad) + VectorSizeElements) |-> 0],
     writer |-> [i \in 1..(Len(hkGrad) + VectorSizeElements) |-> -1],
     thread |-> 0, alias |-> "none"]).back

\* what the running Gelu, GeluGrad or Quant8Bwd kernel leaves in an output
\* buffer of its own
EwDistinct ==
  EwThreadsRun(0, ewBlocks * kThreadInBlock256,
    [out |-> [i \in 1..Len(ewIn) |-> EwWord(ewT, HQuietNaN + 1)],
     writes |-> [i \in 1..Len(ewWrites) |-> 0],
     reads |-> [i \in 1..Len(ewReads) |-> 0],
     alias |-> "none"]).out

\* a component whose launchers are not called
Int8Off ==
  /\ i8cuda = FALSE /\ i8count = 0 /\ i8in = <<>> /\ i8out = <<>>
  /\ i8pc = "done" /\ i8todo = {} /\ i8alias = FALSE

HalfOff ==
  /\ hkArch530 = FALSE /\ hkGrad = <<>> /\ hkFeat = <<>>
  /\ hkBack = <<>> /\ hkWrites = <<>> /\ hkReads = <<>> /\ hkWriter = <<>>
  /\ hkAlias = "none" /\ hkPc = "idle" /\ hkThreads = 0
  /\ hkTodo = {} /\ hkCalls = HalfCalls

EwOff ==
  /\ ewOp = "none" /\ ewT = 16 /\ ewIn = <<>> /\ ewGrad = <<>> /\ ewOut = <<>>
  /\ ewAlias = "none" /\ ewWrites = <<>> /\ ewReads = <<>> /\ ewPc = "done"
  /\ ewBlocks = 0 /\ ewTodo = {} /\ ewBlockTodo = {}

\* one of the elementwise kernels is given its input buffer as output buffer
InitAlias ==
  /\ \E k \in {"int8", "half", "ew"} :
       /\ IF k = "int8" THEN Int8Init /\ i8alias ELSE Int8Off
       /\ IF k = "half" THEN HalfInit /\ hkAlias # "none" ELSE HalfOff
       /\ IF k = "ew" THEN EwInit /\ ewAlias # "none" ELSE EwOff
  /\ FunIdle /\ HistIdle /\ Q8Idle

AliasNext == Int8Next \/ HalfNext \/ EwNext

InitInt8 == Int8Init /\ FunIdle /\ HalfIdle /\ HistIdle /\ Q8Idle /\ EwIdle
SpecInt8 == InitInt8 /\ [][Int8Next]_vars

InitFunctor == FunInit /\ Int8Idle /\ HalfIdle /\ HistIdle /\ Q8Idle /\ EwIdle
SpecFunctor == InitFunctor /\ [][FunNext]_vars

InitHalf == HalfInit /\ Int8Idle /\ FunIdle /\ HistIdle /\ Q8Idle /\ EwIdle
SpecHalf == InitHalf /\ [][HalfNext]_vars

InitHist == HistInit /\ Int8Idle /\ FunIdle /\ HalfIdle /\ Q8Idle /\ EwIdle
SpecHist == InitHist /\ [][HistNext]_vars

InitQ8 == Q8Init /\ Int8Idle /\ FunIdle /\ HalfIdle /\ HistIdle /\ EwIdle
SpecQ8 == InitQ8 /\ [][Q8Next]_vars

InitEw == EwInit /\ Int8Idle /\ FunIdle /\ HalfIdle /\ HistIdle /\ Q8Idle
SpecEw == InitEw /\ [][EwNext]_vars

SpecAlias == InitAlias /\ [][AliasNext]_vars

\* every launcher of the file is called on tensors of no elements: the
\* states of Int8Init, HalfInit, Q8Init and EwInit that have no elements and
\* no aliasing
InitEmpty ==
  /\ i8cuda \in BOOLEAN
  /\ i8count = 0 /\ i8in = <<>> /\ i8out = <<>> /\ i8alias = FALSE
  /\ i8pc = "idle" /\ i8todo = {}
  /\ hkArch530 \in BOOLEAN
  /\ hkAlias = "none" /\ hkGrad = <<>> /\ hkFeat = <<>>
  /\ hkBack = [c \in HalfCalls |-> <<>>]
  /\ hkWrites = [c \in HalfCalls |-> [i \in 1..VectorSizeElements |-> 0]]
  /\ hkReads = [c \in HalfCalls |-> [i \in 1..VectorSizeElements |-> 0]]
  /\ hkWriter = [c \in HalfCalls |-> [i \in 1..VectorSizeElements |-> -1]]
  /\ hkPc = "idle" /\ hkThreads = 0 /\ hkTodo = {} /\ hkCalls = {}
  /\ q8T \in {16, 32}
  /\ q8W1 \in Q8Widths1 /\ q8W2 \in Q8Widths2 /\ q8Stoch \in BOOLEAN
  /\ q8In = <<>> /\ q8Out = <<>> /\ q8Seed = U32(4660)
  /\ q8Pc = "idle" /\ q8Kernel = NoKernel /\ q8KSeed = {} /\ q8Err = FALSE
  /\ q8Todo = {} /\ q8Rng = <<>> /\ q8Y = <<>> /\ q8Results = <<>>
  /\ ewOp \in {"Gelu", "GeluGrad", "Quant8Bwd"}
  /\ ewT \in (IF ewOp = "Quant8Bwd" THEN {16, 32} ELSE {16})
  /\ ewAlias = "none" /\ ewIn = <<>> /\ ewGrad = <<>> /\ ewOut = <<>>
  /\ ewWrites = [i \in 1..kThreadInBlock256 |-> 0]
  /\ ewReads = [i \in 1..kThreadInBlock256 |-> 0]
  /\ ewPc = "idle" /\ ewBlocks = 0 /\ ewTodo = {} /\ ewBlockTodo = {}
  /\ FunIdle /\ HistIdle

EmptyNext ==
  \/ Int8Launch
  \/ \E aligned \in BOOLEAN : ReluGradHalfLaunch(aligned)
  \/ \E garbage \in Q8Seeds : Quant8Fwd(garbage)
  \/ Gelu
  \/ GeluGrad
  \/ Quant8Bwd

SpecEmpty == InitEmpty /\ [][EmptyNext]_vars

(***************************************************************************)
(* The claims.                                                             *)
(***************************************************************************)
\* the indexes the kernel has written
Int8Written == IF i8pc = "idle" THEN {} ELSE (1..Len(i8in)) \ {i + 1 : i \in i8todo}

\* C8: in the bit-parallel fallback every byte lane of the output is
\* max(b, 0) of the same lane of the input read as a signed 8-bit integer,
\* and the word equals the packed signed maximum __vmaxs4(w, 0).
C8_FallbackIsLanewiseMax ==
  ~i8cuda =>
    \A i \in Int8Written :
      /\ \A k \in 0..3 :
           Lane(i8out[i], k) =
             (IF Signed8(Lane(i8in[i], k)) > 0 THEN Signed8(Lane(i8in[i], k)) ELSE 0)
      /\ i8out[i] = Vmaxs4(i8in[i], {})

\* a word with a negative lane below a non-negative lane went through the fallback
C8_Witness ==
  /\ ~i8cuda
  /\ i8pc = "done"
  /\ \E i \in Int8Written :
       /\ Lane(i8in[i], 0) = 255 /\ Lane(i8in[i], 1) = 127
       /\ Lane(i8in[i], 2) = 128 /\ Lane(i8in[i], 3) = 1
       /\ i8out[i] = WordOfLanes([k \in 0..3 |-> IF k = 1 THEN 127 ELSE IF k = 3 THEN 1 ELSE 0])

\* C10: for Relu and Relu6 the backward op gives the same backprops whether
\* its features argument is the forward input or the forward output.
C10_GradSameOnInputAndOutput ==
  (fop \in {"Relu", "Relu6"} /\ fdone = {"bpIn", "bpOut"}) => fbpIn = fbpOut

\* Relu6Grad has run on an input above 6 and on the clamped output 6
C10_Witness ==
  /\ fdone = {"bpIn", "bpOut"}
  /\ fop = "Relu6"
  /\ \E i \in 1..Len(fx) :
       /\ fx[i] = 18176 /\ fact[i] = HSix /\ fg[i] = HOne
       /\ fbpIn[i] = HZero /\ fbpOut[i] = HZero

\* C6: the wide kernel and the paired kernel leave bit-identical backprop
\* buffers, on the native half2 path and on the widening fallback path.
C6_VectorEqualsPaired ==
  hkCalls = {"paired", "vector"} => hkBack["paired"] = hkBack["vector"]

\* C9: once doFrequencies_kernel has completed on a zero-initialised output
\* array, the buckets of the histogram add up to the input length.
C9_HistogramSumIsCount ==
  HistDone => SumOut(0, Pow2(HistW(hsT))) = hsCount

\* C5: for a supported (W1, W2) the launcher enqueues the specialization
\* (we, wm) = (W1, W2), with we = 5 for W1 = 8 on a 16-bit element type.
C5_DispatchSelectsPair ==
  (Q8Called /\ Q8Supported) =>
     /\ q8Kernel.we = (IF q8W1 = 8 /\ q8T = 16 THEN 5 ELSE q8W1)
     /\ q8Kernel.wm = q8W2

\* the launcher ran on a tensor of width 8 exponents and 16-bit elements
C5_Witness ==
  /\ Q8Called /\ q8Pc = "running"
  /\ q8T = 16 /\ q8W1 = 8 /\ q8W2 = 2
  /\ q8Kernel.we = 5 /\ q8Kernel.wm = 2

\* the launcher has returned from a call on a tensor that is not empty
Q8Returned == Q8Called /\ Len(q8Results) >= 1 /\ Len(q8In) >= 1

\* C1: after a Quant8Fwd launch for a supported (W1, W2) completes, every
\* output[i] holds the decoding of the narrow-float encoding of input[i].
C1_OutputIsDecodedEncoding ==
  (Q8Returned /\ Q8Supported) =>
     \A i \in 1..Len(q8In) :
        q8Results[Len(q8Results)][i] =
          CastFromF8(q8Kernel.we, q8Kernel.wm, q8T, q8Y[i])

\* C2: a call with N >= 1 and an unsupported (W1, W2) reports an error to
\* the caller and launches no kernel specialization.
C2_UnsupportedWidthsReported ==
  (Len(q8In) >= 1 /\ ~Q8Supported /\ q8Kernel.variant \notin {"_52", "_43"}
     /\ (q8Pc = "running" \/ Len(q8Results) >= 1)) =>
        (q8Err /\ q8Kernel = NoKernel)

\* C3: two launches with the same (input, W1, W2, stoch, seed) leave
\* bit-identical output buffers whatever the buffers held before, and the
\* seed the kernel uses is the seed the caller supplied.
C3_SameArgumentsSameOutput ==
  /\ Len(q8Results) = 2 => q8Results[1] = q8Results[2]
  /\ Q8Called => q8KSeed = q8Seed

\* C4: in every kernel variant the random word of element i is
\* (rot(drop) * 0x7000149) XOR 0x13371337 XOR (i * 229791) XOR seed, where
\* drop is the low half of x (XOR the high half for 32-bit T) and rot swaps
\* its low 5 bits above the rest; nothing else is mixed in.
C4_RngIsTheStatedFormula ==
  (q8Stoch /\ q8Pc = "running") =>
     \A i \in (0..(Len(q8In) - 1)) \ q8Todo :
        LET x == q8In[i + 1]
            low == U32And(x, U32(65535))
            drop == IF q8T = 32 THEN U32Xor(low, U32Shr(x, 16)) ELSE low
            rot == U32Or(U32Shl(U32And(drop, U32(31)), 11), U32Shr(drop, 5))
        IN  q8Rng[i + 1] =
              U32Xor(U32Xor(U32Xor(U32Mul(rot, U32(117440841)), U32(322376503)),
                            U32(i * 229791)),
                     q8KSeed)

\* C7: ReluGrad(g, x)[i] is zero at every index where x[i] <= 0, whatever
\* g[i] is.
C7_ZeroWhereFeatureNotPositive ==
  (fop = "Relu" /\ "bpIn" \in fdone) =>
     \A i \in 1..Len(fx) :
        (~HIsNaN(fx[i]) /\ ~HGt(fx[i], HZero)) => HIsZero(fbpIn[i])

\* C11: LeakyReluGrad gives the same backprops whether its features argument
\* is the input of LeakyRelu or its output, for every alpha.
C11_LeakyGradSameOnInputAndOutput ==
  (fop = "LeakyRelu" /\ fdone = {"bpIn", "bpOut"}) => fbpIn = fbpOut


\* a <= b of IEEE comparison: false when either side is a NaN
HLe(a, b) == ~HIsNaN(a) /\ ~HIsNaN(b) /\ HKey(a) <= HKey(b)

\* C12 as stated: for every input, NaN included, every element of the Relu6
\* output satisfies 0 <= y <= 6.
C12_Relu6InRange ==
  fop = "Relu6" =>
     \A i \in 1..Len(fx) : HLe(HZero, fact[i]) /\ HLe(fact[i], HSix)

\* C12: every element of the Relu6 output satisfies 0 <= y <= 6 where the
\* input is not a NaN, and is a NaN where the input is a NaN.
C12_Relu6InRangeOrNaN ==
  fop = "Relu6" =>
     \A i \in 1..Len(fx) :
        IF HIsNaN(fx[i]) THEN HIsNaN(fact[i])
        ELSE HLe(HZero, fact[i]) /\ HLe(fact[i], HSix)

\* Relu6 has clamped a negative input to 0 and +Inf to 6
C12_Witness ==
  /\ fop = "Relu6"
  /\ \E i \in 1..Len(fx) : fx[i] = 48128 /\ fact[i] = HZero
  /\ \E i \in 1..Len(fx) : fx[i] = 31744 /\ fact[i] = HSix

\* the element indexes of the buffers, and the indexes past their end
HalfIndexes == 1..Len(hkGrad)
HalfPastEnd == (Len(hkGrad) + 1)..(Len(hkGrad) + VectorSizeElements)

\* C16: when every thread of ReluGradHalfKernel has run, for any number of
\* threads, every index below N was written exactly once, no index from N on
\* was read or written, and for odd N the last element was written by the
\* thread that left the loop with index = N div 2.
C16_PairedWritesEachIndexOnce ==
  (hkPc = "paired" /\ hkTodo = {}) =>
     /\ \A i \in HalfIndexes : hkWrites["paired"][i] = 1
     /\ \A i \in HalfPastEnd : hkWrites["paired"][i] = 0 /\ hkReads["paired"][i] = 0
     /\ Len(hkGrad) % 2 = 1 =>
          LET w == hkWriter["paired"][Len(hkGrad)]
              h == Len(hkGrad) \div 2
          IN  w >= 0 /\ w <= h /\ (h - w) % hkThreads = 0

\* ReluGradHalfKernel has run on 9 elements with 3 threads
C16_Witness ==
  /\ hkPc = "paired" /\ hkTodo = {}
  /\ Len(hkGrad) = 9 /\ hkThreads = 3
  /\ hkWriter["paired"][9] = 1 /\ hkWriter["paired"][7] = 0

\* C17: when every thread of ReluGradHalfKernelVector, launched by the
\* aligned path, has run, every index below N was written exactly once and no
\* index from N on was read or written: thread t < N div 8 wrote the group
\* 8t..8t+7, and thread r < N mod 8 wrote the element 8 * (N div 8) + r.
C17_VectorWritesEachIndexOnce ==
  (hkPc = "vector" /\ hkTodo = {}) =>
     /\ hkThreads = Divup(Divup(Len(hkGrad), VectorSizeElements), kThreadInBlock)
                      * kThreadInBlock
     /\ \A i \in HalfIndexes :
          /\ hkWrites["vector"][i] = 1
          /\ hkWriter["vector"][i] =
               (IF i - 1 < VectorSizeElements * (Len(hkGrad) \div VectorSizeElements)
                  THEN (i - 1) \div VectorSizeElements
                  ELSE (i - 1) % VectorSizeElements)
     /\ \A i \in HalfPastEnd : hkWrites["vector"][i] = 0 /\ hkReads["vector"][i] = 0

\* ReluGradHalfKernelVector has run on 10 elements: one group and a tail of 2
C17_Witness ==
  /\ hkPc = "vector" /\ hkTodo = {}
  /\ Len(hkGrad) = 10 /\ hkThreads = kThreadInBlock
  /\ hkWriter["vector"][8] = 0 /\ hkWriter["vector"][9] = 0
  /\ hkWriter["vector"][10] = 1

\* C14: after Quant8Bwd completes on N >= 1 elements, output is bit-identical
\* to input: the grid is ceil(N / 256) blocks of 256 threads, every index
\* below N was written exactly once, and nothing from N on was read or written.
C14_Quant8BwdCopies ==
  (ewOp = "Quant8Bwd" /\ ewPc = "done" /\ Len(ewIn) >= 1) =>
     /\ ewOut = ewIn
     /\ ewBlocks * kThreadInBlock256 >= Len(ewIn)
     /\ (ewBlocks - 1) * kThreadInBlock256 < Len(ewIn)
     /\ \A i \in DOMAIN ewWrites :
          IF i <= Len(ewIn) THEN ewWrites[i] = 1 /\ ewReads[i] = 1
          ELSE ewWrites[i] = 0 /\ ewReads[i] = 0

\* Quant8Bwd<Device, float> has copied 257 elements, on two blocks
C14_Witness ==
  /\ ewOp = "Quant8Bwd" /\ ewPc = "done" /\ ewT = 32 /\ ewAlias = "none"
  /\ Len(ewIn) = kThreadInBlock256 + 1 /\ ewBlocks = 2
  /\ ewOut[Len(ewIn)] = ewIn[Len(ewIn)] /\ ewWrites[Len(ewIn)] = 1

\* C18: with the output buffer being one of the input buffers, every
\* elementwise kernel leaves, under every interleaving of its threads, the
\* output it leaves in an output buffer of its own.
C18_AliasedEqualsDistinct ==
  /\ (i8alias /\ i8pc = "running" /\ i8todo = {}) =>
       i8out = Int8Sequential(0, [i \in 1..Len(i8in) |-> {}])
  /\ (hkAlias # "none" /\ hkPc # "idle" /\ hkTodo = {}) =>
       hkBack[hkPc] = HalfDistinct(hkPc, hkThreads)
  /\ (ewAlias # "none" /\ ewPc = "running" /\ ewTodo = {} /\ ewBlockTodo = {}) =>
       ewOut = EwDistinct

\* an int8 Relu in place on two words has run both iterations and changed
\* both words
C18_Witness ==
  /\ i8alias /\ i8pc = "running" /\ i8todo = {}
  /\ Len(i8in) = 2
  /\ i8out[1] # i8in[1] /\ i8out[2] # i8in[2] /\ i8out[1] # i8out[2]

\* C13: on a tensor of no elements every GPU launcher returns without
\* enqueuing a kernel, and the output buffer and the memory after it are as
\* they were.
C13_EmptyTensorLaunchesNothing ==
  /\ i8count = 0 =>
       i8pc \in {"idle", "done"} /\ i8todo = {} /\ i8out = <<>>
  /\ Len(hkGrad) = 0 =>
       /\ hkPc = "idle" /\ hkThreads = 0 /\ hkTodo = {}
       /\ \A c \in DOMAIN hkBack :
            /\ hkBack[c] = <<>>
            /\ \A i \in DOMAIN hkWrites[c] : hkWrites[c][i] = 0 /\ hkReads[c][i] = 0
  /\ Len(q8In) = 0 =>
       /\ q8Pc = "idle" /\ q8Kernel = NoKernel /\ q8Todo = {}
       /\ q8Out = <<>> /\ q8Rng = <<>> /\ q8Y = <<>>
  /\ Len(ewIn) = 0 =>
       /\ ewPc \in {"idle", "done"} /\ ewBlocks = 0 /\ ewTodo = {} /\ ewBlockTodo = {}
       /\ ewOut = <<>>
       /\ \A i \in DOMAIN ewWrites : ewWrites[i] = 0 /\ ewReads[i] = 0

\* the int8 Relu, both half ReluGrad paths, Quant8Fwd and Quant8Bwd have
\* returned from a call on tensors of no elements
C13_Witness ==
  /\ i8count = 0 /\ i8pc = "done"
  /\ Len(hkGrad) = 0 /\ hkCalls = HalfCalls
  /\ Len(q8In) = 0 /\ Len(q8Results) = 2
  /\ Len(ewIn) = 0 /\ ewOp = "Quant8Bwd" /\ ewPc = "done"

\* the words of the two narrow-float values next to the value of x: the
\* decodings of the casts that add no random bits and every random bit
Q8Neighbours(we, wm, T, x) ==
  {CastFromF8(we, wm, T, CastToF8(we, wm, T, x, TRUE, rng)) : rng \in {{}, Bits32}}

\* C15: after a Quant8Fwd launch with stoch = true for a supported (W1, W2)
\* completes, every output[i] of a finite input[i] holds one of the two
\* narrow-format values next to input[i].
C15_StochasticOutputIsNeighbour ==
  (Q8Returned /\ Q8Supported /\ q8Stoch) =>
     \A i \in 1..Len(q8In) :
        Field(q8In[i], SrcMant(q8T), SrcExp(q8T)) # Pow2(SrcExp(q8T)) - 1 =>
          q8Results[Len(q8Results)][i] \in
            Q8Neighbours(q8Kernel.we, q8Kernel.wm, q8T, q8In[i])

=============================================================================
